---- MODULE Spec2Model ----
(***************************************************************************)
(* Model of the e-Gov law downloader.                                      *)
(*                                                                         *)
(* The repository holds two scripts with the same skeleton:                *)
(*   "keyword": scripts /download_laws.py, which lists through /keyword    *)
(*              and keeps only laws in force;                              *)
(*   "laws":    japan-law-tax-json-download/scripts/download_laws.py,      *)
(*              which lists through /laws and saves every law it resolves. *)
(* The variable script says which of the two is running.                   *)
(*                                                                         *)
(* A Python str is a sequence of one-character strings; None and "" are    *)
(* both the empty sequence (the code only tests their truth value).        *)
(***************************************************************************)
EXTENDS Integers, Sequences, FiniteSets, TLC

-----------------------------------------------------------------------------
(* Bounds of the model. *)

\* Longest law_info_list the listing endpoint answers with.
MaxCatalog == 2

\* Largest value given to --limit.
MaxLimit == 2

\* Longest string handed to sanitize_filename on its own.
MaxStrLen == 4

-----------------------------------------------------------------------------
(* Characters and strings. *)

None == << >>

Whitespace == {" ", "\t"}

\* The class [0-9A-Za-z_\-()\[\]] of sanitize_filename, over the characters
\* the model's strings use.
AllowedChars == {"a", "b", "c", "x", "y", "n", "m", "u", "k", "o", "w",
                 "0", "1", "3", "4", "_", "-", "(", ")", "[", "]"}

Alphabet == AllowedChars \cup Whitespace \cup {"/", "."}

\* a or b, on values whose truth is being non-empty.
PyOr(a, b) == IF a # None THEN a ELSE b

RECURSIVE LStrip(_, _)
LStrip(s, chars) ==
    IF s # << >> /\ Head(s) \in chars THEN LStrip(Tail(s), chars) ELSE s

RECURSIVE RStrip(_, _)
RStrip(s, chars) ==
    IF s # << >> /\ s[Len(s)] \in chars
    THEN RStrip(SubSeq(s, 1, Len(s) - 1), chars)
    ELSE s

\* str.strip(): chars removed from both ends.
Strip(s, chars) == RStrip(LStrip(s, chars), chars)

\* re.sub(r"[chars]+", "_", s): every maximal run of chars becomes one "_".
RECURSIVE SubRuns(_, _)
SubRuns(s, chars) ==
    IF s = << >> THEN << >>
    ELSE IF Head(s) \in chars
         THEN <<"_">> \o SubRuns(LStrip(s, chars), chars)
         ELSE <<Head(s)>> \o SubRuns(Tail(s), chars)

\* str.zfill(width) of a digit string.
RECURSIVE ZFill(_, _)
ZFill(s, width) == IF Len(s) >= width THEN s ELSE ZFill(<<"0">> \o s, width)

Unknown == <<"u", "n", "k", "n", "o", "w", "n">>

\* sanitize_filename stripping the underscores before the substitutions.
sanitize_filename_StripFirst(value) ==
    LET v1 == Strip(Strip(value, Whitespace), {"_"})
        v2 == SubRuns(v1, Whitespace)
        v3 == SubRuns(v2, Alphabet \ AllowedChars)
    IN  IF v3 # << >> THEN v3 ELSE Unknown

sanitize_filename(value) ==
    LET v1 == Strip(value, Whitespace)
        v2 == SubRuns(v1, Whitespace)
        v3 == SubRuns(v2, Alphabet \ AllowedChars)
        v4 == Strip(v3, {"_"})
    IN  IF v4 # << >> THEN v4 ELSE Unknown

\* output_dir / f"{safe_num}_{safe_name}.json", as the file's name in output_dir.
Filename(law_id, law_num, law_name) ==
    sanitize_filename(PyOr(law_num, law_id)) \o <<"_">>
        \o sanitize_filename(PyOr(law_name, law_id)) \o <<".json">>

-----------------------------------------------------------------------------
(* JSON objects are functions from keys to values; a missing key is a key  *)
(* outside the domain.                                                     *)

\* dict.get(key, default)
Get(d, key, default) == IF key \in DOMAIN d THEN d[key] ELSE default

EmptyDict == [k \in {} |-> None]

\* A JSON scalar: a string, or an integer below ten.
JStr(s) == [t |-> "str", s |-> s, n |-> 0]
JInt(n) == [t |-> "int", s |-> "", n |-> n]

DigitChar == <<"1", "2", "3", "4", "5", "6", "7", "8", "9">>

\* str(x) of a JSON scalar.
PyStr(x) == IF x.t = "str" THEN x.s ELSE IF x.n = 0 THEN "0" ELSE DigitChar[x.n]

-----------------------------------------------------------------------------
(* What the two endpoints may answer. *)

\* Entries of a law_info_list: snake-case keys, camel-case keys, a missing
\* law_num and law_name, a missing identifier.
EntryPool ==
    { [law_id |-> <<"a">>, law_num |-> <<"x">>, law_name |-> <<"n">>],
      [law_id |-> <<"b">>, law_num |-> <<"x", "/">>, law_name |-> <<" ", "n">>],
      [lawId |-> <<"c">>],
      [law_num |-> <<"y">>, lawName |-> <<"m">>] }

RECURSIVE SeqsUpTo(_, _)
SeqsUpTo(S, n) ==
    IF n = 0 THEN { << >> }
    ELSE LET shorter == SeqsUpTo(S, n - 1)
         IN  shorter \cup { Append(q, e) : q \in {r \in shorter : Len(r) = n - 1}, e \in S }

Catalogs == SeqsUpTo(EntryPool, MaxCatalog)

\* The lists that also come under keyword_response: those of an entry with
\* every key and an entry with no identifier.
WrappedCatalogs ==
    SeqsUpTo({ e \in EntryPool : "law_num" \in DOMAIN e /\ "lawId" \notin DOMAIN e
                                  /\ Len(e.law_num) = 1 }, MaxCatalog)

\* Bodies of the listing endpoint's answer: the list at the top, the list under
\* keyword_response, and an answer with no list.
ListPayloads ==
    { [law_info_list |-> c] : c \in Catalogs }
        \cup { [keyword_response |-> [law_info_list |-> c]] : c \in WrappedCatalogs }
        \cup { [message |-> <<"n">>] }

\* revision_info objects of a law_data answer. category_cd is the category the
\* record itself declares.
RevisionInfos ==
    { [repeal_status |-> "None", amendment_type |-> JStr("3"), category_cd |-> <<"0", "1", "3">>],
      [repeal_status |-> "Repeal", amendment_type |-> JStr("3"), category_cd |-> <<"0", "1", "3">>],
      [repeal_status |-> "Expire", category_cd |-> <<"1", "3">>],
      [repeal_status |-> "LossOfEffectiveness", amendment_type |-> JStr("1"), category_cd |-> <<"0", "1", "3">>],
      [amendment_type |-> JInt(8), category_cd |-> <<"0", "1", "3">>],
      [repeal_status |-> "None", amendment_type |-> JStr("8"), category_cd |-> <<"1", "3">>],
      [repeal_status |-> "None", category_cd |-> <<"0", "1", "4">>],
      [repeal_status |-> "Suspend"] }

\* Bodies of a law_data answer for the identifier ident: the record at the top,
\* the record under law_data_response, a record with no revision_info, and a
\* record under another wrapper key.
LawPayloads(ident) ==
    { [law_info |-> ident, revision_info |-> r] : r \in RevisionInfos }
        \cup { [law_data_response |-> [law_info |-> ident, revision_info |-> r]] :
                 r \in {q \in RevisionInfos : Get(q, "amendment_type", JStr("")) = JStr("3")} }
        \cup { [law_info |-> ident] }
        \cup { [result |-> [law_info |-> ident,
                            revision_info |-> [repeal_status |-> "Repeal"]]] }

\* The answers given to the laws script, which never looks into a payload: a
\* law in force and a repealed one.
PlainPayloads(ident) ==
    { p \in LawPayloads(ident) :
        /\ "revision_info" \in DOMAIN p
        /\ Get(p.revision_info, "amendment_type", JStr("")) = JStr("3") }

\* Exceptions fetch_json raises: urllib.error.HTTPError with code 404, HTTPError
\* with another code, URLError (timeout, connection), json.JSONDecodeError.
FetchErrors == {"HTTPError404", "HTTPError500", "URLError", "JSONDecodeError"}

HTTPErrors == {"HTTPError404", "HTTPError500"}

-----------------------------------------------------------------------------
(* State. *)

VARIABLES
    script,         \* "keyword" or "laws": which of the two scripts runs
    args,           \* the parsed command line: category_cd, limit
    pc,             \* where main() stands
    list_reqs,      \* the listing requests issued: path and query parameters
    list_payload,   \* the listing endpoint's answer
    law_info_list,  \* the list main() iterates over
    count,          \* iter_laws: items yielded so far
    cur,            \* law_id, law_num, law_name of the item in hand
    law_payload,    \* the detail payload of the item in hand
    files,          \* output_dir: file name -> content written
    active_count,   \* the keyword script's counter of saved laws
    exit_status,    \* the process's exit status, NoExit while it runs
    ended,          \* how the run ended
    reqs,           \* identifiers of the detail requests issued for the item in hand
    resps,          \* what each of these requests came back with
    attempts,       \* law_id of every item whose primary request was issued
    written,        \* a record per successful write_text, in order
    gap,            \* "none", "fetched" (a detail request since the last sleep), "slept"
    gapAtFetch,     \* gap when the primary request of the item in hand was issued
    outcome,        \* what has become of the item in hand
    tally,          \* items skipped, failed, rejected, write_failed so far
    san             \* sanitize_filename applied to a string, once and again

vars == <<script, args, pc, list_reqs, list_payload, law_info_list, count, cur, law_payload, files,
          active_count, exit_status, ended, reqs, resps, attempts, written,
          gap, gapAtFetch, outcome, tally, san>>

-----------------------------------------------------------------------------
(* Pure functions of the scripts. *)

\* law_info.get("law_id") or law_info.get("lawId"), and so on.
extract_law_info(law_info) ==
    [law_id   |-> PyOr(Get(law_info, "law_id", None), Get(law_info, "lawId", None)),
     law_num  |-> PyOr(Get(law_info, "law_num", None), Get(law_info, "lawNum", None)),
     law_name |-> PyOr(Get(law_info, "law_name", None), Get(law_info, "lawName", None))]

\* --limit: NoLimit is the default, None.
NoLimit == -1

\* IterHasNext with the limit tested against the number of laws saved.
IterHasNext_Accepted(n, yielded, limit) ==
    /\ yielded < n
    /\ ~(limit # NoLimit /\ active_count >= limit)

\* iter_laws: whether the generator yields another item after it yielded that many. The
\* limit is tested only after an item was yielded.
IterHasNext(n, yielded, limit) ==
    /\ yielded < n
    /\ ~(yielded >= 1 /\ limit # NoLimit /\ yielded >= limit)

\* ShouldFallback without the test of the HTTP code.
ShouldFallback_AnyCode(exc, law_num) ==
    /\ exc \in HTTPErrors
    /\ law_num # None

\* fetch_law_data: the except clause that leads to the fallback request.
ShouldFallback(exc, law_num) ==
    /\ exc \in HTTPErrors
    /\ ~(exc # "HTTPError404" \/ law_num = None)

\* FallbackIdent repeating the primary identifier.
FallbackIdent_Primary(law_id, law_num) == law_id

\* fetch_law_data: the identifier of the fallback request.
FallbackIdent(law_id, law_num) == law_num

\* The list the keyword script reads out of the listing answer.
\* KeywordList reading law_info_list at the top of the answer only.
KeywordList_NoUnwrap(answer) == Get(answer, "law_info_list", << >>)

KeywordList(answer) ==
    LET target_data == Get(answer, "keyword_response", answer)
    IN  Get(target_data, "law_info_list", << >>)

\* The list the laws script reads out of the listing answer.
LawsList(answer) == Get(answer, "law_info_list", << >>)

InactiveStatuses == {"Repeal", "Expire", "LossOfEffectiveness"}

\* IsInactive with a status list that names Repeal alone.
IsInactive_RepealOnly(payload) ==
    LET data_root == Get(payload, "law_data_response", payload)
        revision_info == Get(data_root, "revision_info", EmptyDict)
        repeal_status == Get(revision_info, "repeal_status", "")
        amendment_type == PyStr(Get(revision_info, "amendment_type", JStr("")))
    IN  repeal_status \in {"Repeal"} \/ amendment_type = "8"

\* IsInactive with a check of the record's category against --category-cd, both
\* zero-padded to three digits.
IsInactive_Category(payload) ==
    LET data_root == Get(payload, "law_data_response", payload)
        revision_info == Get(data_root, "revision_info", EmptyDict)
        repeal_status == Get(revision_info, "repeal_status", "")
        amendment_type == PyStr(Get(revision_info, "amendment_type", JStr("")))
        category == Get(revision_info, "category_cd", args.category_cd)
    IN  \/ repeal_status \in InactiveStatuses \/ amendment_type = "8"
        \/ ZFill(category, 3) # ZFill(args.category_cd, 3)

\* IsInactive comparing amendment_type, not str(amendment_type), with "8".
IsInactive_NoStr(payload) ==
    LET data_root == Get(payload, "law_data_response", payload)
        revision_info == Get(data_root, "revision_info", EmptyDict)
        repeal_status == Get(revision_info, "repeal_status", "")
        amendment_type == Get(revision_info, "amendment_type", JStr(""))
    IN  repeal_status \in InactiveStatuses \/ amendment_type = JStr("8")

\* The keyword script's filter: TRUE when the law is skipped as inactive.
\* IsInactive taking every status but None for an inactive one.
IsInactive_StrictStatus(payload) ==
    LET data_root == Get(payload, "law_data_response", payload)
        revision_info == Get(data_root, "revision_info", EmptyDict)
        repeal_status == Get(revision_info, "repeal_status", "")
        amendment_type == PyStr(Get(revision_info, "amendment_type", JStr("")))
    IN  repeal_status \notin {"", "None"} \/ amendment_type = "8"

IsInactive(payload) ==
    LET data_root == Get(payload, "law_data_response", payload)
        revision_info == Get(data_root, "revision_info", EmptyDict)
        repeal_status == Get(revision_info, "repeal_status", "")
        amendment_type == PyStr(Get(revision_info, "amendment_type", JStr("")))
    IN  repeal_status \in InactiveStatuses \/ amendment_type = "8"

-----------------------------------------------------------------------------
(* Initial state. *)

NoExit == -1

\* No string has been handed to sanitize_filename on its own.
NoSan == [value |-> None, once |-> None, twice |-> None, calls |-> 0]

\* ListRequest asking for a first page of two entries.
ListRequest_Paged ==
    [path |-> IF script = "keyword" THEN "keyword" ELSE "laws",
     params |-> [category_cd |-> args.category_cd, response_format |-> "json",
                 offset |-> 1, limit |-> 2]]

\* list_url: the path of the listing endpoint and list_params.
ListRequest ==
    [path |-> IF script = "keyword" THEN "keyword" ELSE "laws",
     params |-> [category_cd |-> args.category_cd, response_format |-> "json"]]

\* The content of a file opened for writing and not written yet.
Truncated == EmptyDict

NoItem == [law_id |-> None, law_num |-> None, law_name |-> None]

ghosts == <<reqs, resps, attempts, written, gap, gapAtFetch, outcome, tally>>

\* tally with one more item under kind.
Count(kind) == [tally EXCEPT ![kind] = @ + 1]

Init ==
    /\ script \in {"keyword", "laws"}
    /\ args \in [category_cd : {<<"1", "3">>, <<"0", "1", "3">>},
                 limit : {NoLimit} \cup (0 .. MaxLimit)]
    /\ pc = "list"
    /\ list_reqs = << >>
    /\ list_payload = EmptyDict
    /\ law_info_list = << >>
    /\ count = 0
    /\ cur = NoItem
    /\ law_payload = EmptyDict
    /\ files = EmptyDict
    /\ active_count = 0
    /\ exit_status = NoExit
    /\ ended = "running"
    /\ reqs = << >>
    /\ resps = << >>
    /\ attempts = << >>
    /\ written = << >>
    /\ gap = "none"
    /\ gapAtFetch = "none"
    /\ outcome = "none"
    /\ tally = [skipped |-> 0, failed |-> 0, rejected |-> 0, write_failed |-> 0]
    /\ san = NoSan

-----------------------------------------------------------------------------
(* Steps of main(). *)

\* The run ends: main() returns status, or an exception leaves it.
Exit(status, how) ==
    /\ pc' = "done"
    /\ exit_status' = status
    /\ ended' = how

\* ListFail with main() returning 0, as it does for an empty list.
ListFail_Return0 ==
    /\ pc = "list"
    /\ \E exc \in FetchErrors : Exit(0, "list_failed")
    /\ list_reqs' = Append(list_reqs, ListRequest)
    /\ UNCHANGED <<san, list_payload, script, args,
                   law_info_list, count, cur, law_payload, files,
                   active_count>>
    /\ UNCHANGED ghosts

\* The listing request fails. The keyword script returns 1; in the laws script
\* the exception leaves main() and the interpreter exits with status 1.
ListFail ==
    /\ pc = "list"
    /\ \E exc \in FetchErrors :
         Exit(1, IF script = "keyword" THEN "list_failed" ELSE "crashed")
    /\ list_reqs' = Append(list_reqs, ListRequest)
    /\ UNCHANGED <<san, list_payload, script, args,
                   law_info_list, count, cur, law_payload, files,
                   active_count>>
    /\ UNCHANGED ghosts

\* The listing request succeeds. The keyword script returns 0 on an empty list.
ListOk ==
    /\ pc = "list"
    /\ \E answer \in ListPayloads :
         LET l == IF script = "keyword" THEN KeywordList(answer)
                                        ELSE LawsList(answer)
         IN  /\ list_payload' = answer
             /\ law_info_list' = l
             /\ IF script = "keyword" /\ l = << >>
                THEN Exit(0, "finished")
                ELSE pc' = "iter" /\ UNCHANGED <<exit_status, ended>>
    /\ list_reqs' = Append(list_reqs, ListRequest)
    /\ UNCHANGED <<san, script, args,
                   count, cur, law_payload, files, active_count>>
    /\ UNCHANGED ghosts

\* iter_laws is exhausted or has reached the limit: main() returns 0.
Finish ==
    /\ pc = "iter"
    /\ ~IterHasNext(Len(law_info_list), count, args.limit)
    /\ Exit(0, "finished")
    /\ UNCHANGED <<san, list_reqs, list_payload, script, args,
                   law_info_list, count, cur, law_payload, files,
                   active_count>>
    /\ UNCHANGED ghosts

\* The next item has no law_id: continue.
SkipEntry ==
    /\ pc = "iter"
    /\ IterHasNext(Len(law_info_list), count, args.limit)
    /\ LET info == extract_law_info(law_info_list[count + 1])
       IN  /\ info.law_id = None
           /\ cur' = info
    /\ count' = count + 1
    /\ law_payload' = EmptyDict
    /\ reqs' = << >>
    /\ resps' = << >>
    /\ outcome' = "skipped"
    /\ tally' = Count("skipped")
    /\ UNCHANGED <<san, list_reqs, list_payload, script, args,
                   pc, law_info_list, files, active_count,
                   exit_status, ended, attempts, written, gap, gapAtFetch>>

\* The next item has a law_id: fetch_law_data issues the primary request.
StartFetch ==
    /\ pc = "iter"
    /\ IterHasNext(Len(law_info_list), count, args.limit)
    /\ LET info == extract_law_info(law_info_list[count + 1])
       IN  /\ info.law_id # None
           /\ cur' = info
           /\ reqs' = <<info.law_id>>
           /\ attempts' = Append(attempts, info.law_id)
    /\ count' = count + 1
    /\ law_payload' = EmptyDict
    /\ resps' = << >>
    /\ gapAtFetch' = gap
    /\ gap' = "fetched"
    /\ pc' = "primary"
    /\ outcome' = "pending"
    /\ UNCHANGED <<san, list_reqs, list_payload, script, args,
                   law_info_list, files, active_count, exit_status,
                   ended, written, tally>>

\* A detail request answers with a payload: the keyword script filters it,
\* the laws script writes it.
FetchOk ==
    /\ pc \in {"primary", "fallback"}
    /\ \E p \in (IF script = "keyword" THEN LawPayloads(reqs[Len(reqs)])
                                      ELSE PlainPayloads(reqs[Len(reqs)])) :
         law_payload' = p
    /\ resps' = Append(resps, "ok")
    /\ pc' = IF script = "keyword" THEN "filter" ELSE "write"
    /\ outcome' = "resolved"
    /\ UNCHANGED <<san, list_reqs, list_payload, script, args,
                   law_info_list, count, cur, files, active_count,
                   exit_status, ended, reqs, attempts, written, gap, gapAtFetch,
                   tally>>

\* The primary request raises a 404 and there is a law_num: the fallback
\* request is issued.
PrimaryFallback ==
    /\ pc = "primary"
    /\ \E exc \in FetchErrors :
         /\ ShouldFallback(exc, cur.law_num)
         /\ resps' = Append(resps, exc)
    /\ reqs' = Append(reqs, FallbackIdent(cur.law_id, cur.law_num))
    /\ pc' = "fallback"
    /\ UNCHANGED <<san, list_reqs, list_payload, script, args,
                   law_info_list, count, cur, law_payload, files,
                   active_count, exit_status, ended, attempts, written, gap,
                   gapAtFetch, outcome, tally>>

\* FetchFail with the exception leaving main().
FetchFail_Abort ==
    /\ pc \in {"primary", "fallback"}
    /\ \E exc \in FetchErrors :
         /\ pc = "primary" => ~ShouldFallback(exc, cur.law_num)
         /\ resps' = Append(resps, exc)
    /\ Exit(1, "crashed")
    /\ outcome' = "failed"
    /\ tally' = Count("failed")
    /\ UNCHANGED <<san, list_reqs, list_payload, script, args,
                   law_info_list, count, cur, law_payload, files,
                   active_count, reqs, attempts, written, gap, gapAtFetch>>

\* fetch_law_data raises: main() logs it and continues with the next item.
FetchFail ==
    /\ pc \in {"primary", "fallback"}
    /\ \E exc \in FetchErrors :
         /\ pc = "primary" => ~ShouldFallback(exc, cur.law_num)
         /\ resps' = Append(resps, exc)
    /\ pc' = "iter"
    /\ outcome' = "failed"
    /\ tally' = Count("failed")
    /\ UNCHANGED <<san, list_reqs, list_payload, script, args,
                   law_info_list, count, cur, law_payload, files,
                   active_count, exit_status, ended, reqs, attempts, written, gap,
                   gapAtFetch>>

\* Reject with active_count += 1 placed ahead of the filter.
Reject_Counted ==
    /\ pc = "filter"
    /\ IsInactive(law_payload)
    /\ pc' = "iter"
    /\ outcome' = "rejected"
    /\ tally' = Count("rejected")
    /\ active_count' = active_count + 1
    /\ UNCHANGED <<san, list_reqs, list_payload, script, args,
                   law_info_list, count, cur, law_payload, files,
                   exit_status, ended, reqs, resps, attempts,
                   written, gap, gapAtFetch>>

\* The keyword script's filter skips an inactive law: continue.
Reject ==
    /\ pc = "filter"
    /\ IsInactive(law_payload)
    /\ pc' = "iter"
    /\ outcome' = "rejected"
    /\ tally' = Count("rejected")
    /\ UNCHANGED <<san, list_reqs, list_payload, script, args,
                   law_info_list, count, cur, law_payload, files,
                   active_count, exit_status, ended, reqs, resps, attempts,
                   written, gap, gapAtFetch>>

\* The keyword script's filter lets the law through.
Admit ==
    /\ pc = "filter"
    /\ ~IsInactive(law_payload)
    /\ pc' = "write"
    /\ outcome' = "admitted"
    /\ UNCHANGED <<san, list_reqs, list_payload, script, args,
                   law_info_list, count, cur, law_payload, files,
                   active_count, exit_status, ended, reqs, resps, attempts,
                   written, gap, gapAtFetch, tally>>

\* write_text opens the file for writing: the file exists and is empty.
WriteOpen ==
    /\ pc = "write"
    /\ LET filename == Filename(cur.law_id, cur.law_num, cur.law_name)
       IN  files' = [f \in DOMAIN files \cup {filename} |->
                       IF f = filename THEN Truncated ELSE files[f]]
    /\ pc' = "writing"
    /\ UNCHANGED <<san, list_reqs, list_payload, script, args,
                   law_info_list, count, cur, law_payload, active_count,
                   exit_status, ended>>
    /\ UNCHANGED ghosts

\* write_text writes the payload and closes the file; the keyword script
\* counts the law.
WriteOk ==
    /\ pc = "writing"
    /\ LET filename == Filename(cur.law_id, cur.law_num, cur.law_name)
       IN  /\ files' = [f \in DOMAIN files \cup {filename} |->
                          IF f = filename THEN law_payload ELSE files[f]]
           /\ written' = Append(written, [item |-> count, law_id |-> cur.law_id,
                                          law_num |-> cur.law_num,
                                          filename |-> filename])
    /\ active_count' = IF script = "keyword" THEN active_count + 1 ELSE active_count
    /\ pc' = "sleep"
    /\ outcome' = "saved"
    /\ UNCHANGED <<san, list_reqs, list_payload, script, args,
                   law_info_list, count, cur, law_payload,
                   exit_status, ended, reqs, resps, attempts, gap, gapAtFetch,
                   tally>>

\* write_text raises OSError, on opening the file or on writing to it. The
\* keyword script's except clause takes it for a failed download and continues;
\* in the laws script it leaves main().
WriteFail ==
    /\ pc \in {"write", "writing"}
    /\ outcome' = "write_failed"
    /\ tally' = Count("write_failed")
    /\ IF script = "keyword"
       THEN pc' = "iter" /\ UNCHANGED <<exit_status, ended>>
       ELSE Exit(1, "crashed")
    /\ UNCHANGED <<san, list_reqs, list_payload, script, args,
                   law_info_list, count, cur, law_payload, files,
                   active_count, reqs, resps, attempts, written, gap, gapAtFetch>>

\* time.sleep(args.sleep_seconds), reached only after a write.
Sleep ==
    /\ pc = "sleep"
    /\ gap' = "slept"
    /\ pc' = "iter"
    /\ UNCHANGED <<san, list_reqs, list_payload, script, args,
                   law_info_list, count, cur, law_payload, files,
                   active_count, exit_status, ended, reqs, resps, attempts,
                   written, gapAtFetch, outcome, tally>>

\* KeyboardInterrupt: the keyword script exits with 1, the laws script dies of
\* the uncaught exception.
Interrupt ==
    /\ pc # "done"
    /\ Exit(IF script = "keyword" THEN 1 ELSE 130, "interrupted")
    /\ UNCHANGED <<san, list_reqs, list_payload, script, args,
                   law_info_list, count, cur, law_payload, files,
                   active_count>>
    /\ UNCHANGED ghosts

Next ==
    \/ ListFail
    \/ ListOk
    \/ Finish
    \/ SkipEntry
    \/ StartFetch
    \/ FetchOk
    \/ PrimaryFallback
    \/ FetchFail
    \/ Reject
    \/ Admit
    \/ WriteOpen
    \/ WriteOk
    \/ WriteFail
    \/ Sleep
    \/ Interrupt

Spec == Init /\ [][Next]_vars

TypeOK ==
    /\ pc \in {"list", "iter", "primary", "fallback", "filter", "write", "writing", "sleep", "done"}
    /\ count \in 0 .. MaxCatalog
    /\ Len(resps) <= Len(reqs)
    /\ pc \in {"primary", "fallback"} => Len(reqs) = Len(resps) + 1
    /\ active_count \in 0 .. MaxCatalog
    /\ exit_status \in {NoExit, 0, 1, 130}

-----------------------------------------------------------------------------
(* What a detail record declares, read off the payload without the filter's *)
(* defaults: the revision_info of the record, at the top of the payload or  *)
(* under law_data_response.                                                 *)

HasRevision(p) ==
    \/ "revision_info" \in DOMAIN p
    \/ "law_data_response" \in DOMAIN p /\ "revision_info" \in DOMAIN p.law_data_response

Revision(p) ==
    IF "revision_info" \in DOMAIN p THEN p.revision_info
    ELSE p.law_data_response.revision_info

DeclaresStatus(p, statuses) ==
    /\ HasRevision(p)
    /\ "repeal_status" \in DOMAIN Revision(p)
    /\ Revision(p).repeal_status \in statuses

DeclaresAmendment8(p) ==
    /\ HasRevision(p)
    /\ "amendment_type" \in DOMAIN Revision(p)
    /\ Revision(p).amendment_type \in {JStr("8"), JInt(8)}

\* The item in hand was resolved: law_payload is its detail record.
Resolved == outcome \in {"resolved", "rejected", "admitted", "saved", "write_failed"}

\* A write_text was reached for the item in hand.
ReachedWrite == outcome \in {"admitted", "saved", "write_failed"}

WrittenItems == { written[i].item : i \in 1 .. Len(written) }

-----------------------------------------------------------------------------
(* C1..C3: the keyword script's filter. *)

\* C1: in the keyword script no file holds, and no write is reached for, a
\* detail record that declares the status Repeal, Expire or LossOfEffectiveness,
\* whatever its category and amendment type.
C1_NoInactiveStatusWritten ==
    script = "keyword" =>
        /\ \A f \in DOMAIN files : ~DeclaresStatus(files[f], InactiveStatuses)
        /\ Resolved /\ DeclaresStatus(law_payload, InactiveStatuses) =>
               /\ ~ReachedWrite
               /\ count \notin WrittenItems

\* C1 witness: a record declaring Expire, with no amendment type, was resolved
\* and skipped.
C1_Witness ==
    /\ script = "keyword"
    /\ outcome = "rejected"
    /\ DeclaresStatus(law_payload, {"Expire"})
    /\ ~DeclaresAmendment8(law_payload)

\* C2: in the keyword script no file holds, and no write is reached for, a
\* detail record whose amendment type is "8" (or the number 8), also when its
\* status is absent or stands for a law in force.
C2_NoAmendment8Written ==
    script = "keyword" =>
        /\ \A f \in DOMAIN files : ~DeclaresAmendment8(files[f])
        /\ Resolved /\ DeclaresAmendment8(law_payload) =>
               /\ ~ReachedWrite
               /\ count \notin WrittenItems

\* C2 witness: a record with amendment type 8 and no status was resolved and
\* skipped.
C2_Witness ==
    /\ script = "keyword"
    /\ outcome = "rejected"
    /\ DeclaresAmendment8(law_payload)
    /\ ~DeclaresStatus(law_payload, {"None"} \cup InactiveStatuses)

DeclaresCategory(p) == HasRevision(p) /\ "category_cd" \in DOMAIN Revision(p)

CategoryMatches(p) ==
    ZFill(Revision(p).category_cd, 3) = ZFill(args.category_cd, 3)

\* C3 as stated: a record is written only if its category equals the target
\* category, both zero-padded to three digits.
C3_WrittenOnlyInCategory ==
    script = "keyword" =>
        \A f \in DOMAIN files :
            DeclaresCategory(files[f]) => CategoryMatches(files[f])

\* C3 as amended: the category plays no part in the decision. A resolved record
\* is skipped exactly when it declares an inactive status or amendment type 8,
\* whatever its category and whatever --category-cd is.
C3_DecisionIgnoresCategory ==
    script = "keyword" /\ outcome \in {"rejected", "admitted", "saved", "write_failed"} =>
        (outcome = "rejected") <=>
            (DeclaresStatus(law_payload, InactiveStatuses) \/ DeclaresAmendment8(law_payload))

\* C3 witness: a record of category 014 was saved under --category-cd 13, and
\* it is the file's content.
C3_Witness ==
    /\ script = "keyword"
    /\ outcome = "saved"
    /\ DeclaresCategory(law_payload)
    /\ ~CategoryMatches(law_payload)
    /\ args.category_cd = <<"1", "3">>
    /\ files[Filename(cur.law_id, cur.law_num, cur.law_name)] = law_payload

-----------------------------------------------------------------------------
(* C4, C5: fetch_law_data. *)

\* C4: the first request of an item uses law_id; when it comes back with a 404
\* and the item has a law_num, one more request is issued, with law_num, and a
\* payload it answers with is the item's payload; an item never has more than
\* two requests.
C4_FallbackOnceWithLawNum ==
    /\ Len(reqs) <= 2
    /\ Len(reqs) >= 1 => reqs[1] = cur.law_id
    /\ Len(resps) >= 1 /\ resps[1] = "HTTPError404" /\ cur.law_num # None =>
           Len(reqs) = 2 /\ reqs[2] = cur.law_num
    /\ Len(resps) = 2 /\ resps[2] = "ok" =>
           /\ Resolved
           /\ law_payload \in LawPayloads(cur.law_num)

\* C4 witness: the fallback request answered and its payload is in hand.
C4_Witness ==
    /\ resps = <<"HTTPError404", "ok">>
    /\ reqs = <<cur.law_id, cur.law_num>>
    /\ cur.law_id # cur.law_num
    /\ pc \in {"filter", "write"}
    /\ law_payload \in LawPayloads(cur.law_num)

\* The first request of the item in hand failed and the conditions of the
\* fallback were not met.
PrimaryFailedForGood ==
    /\ Len(resps) >= 1
    /\ resps[1] # "ok"
    /\ ~(resps[1] = "HTTPError404" /\ cur.law_num # None)

\* C5: a second request is issued only after a 404 on an item with a law_num;
\* after any other failure of the first request the item has had one request,
\* has failed, and nothing was written for it.
C5_NoFallbackOtherwise ==
    /\ Len(reqs) = 2 => resps[1] = "HTTPError404" /\ cur.law_num # None
    /\ PrimaryFailedForGood =>
           /\ Len(reqs) = 1
           /\ outcome = "failed"
           /\ pc \in {"iter", "done"}
           /\ count \notin WrittenItems

\* C5 witness: an HTTP error other than 404 on an item with a law_num.
C5_Witness ==
    /\ resps = <<"HTTPError500">>
    /\ cur.law_num # None
    /\ outcome = "failed"
    /\ pc = "iter"

-----------------------------------------------------------------------------
(* C6..C10: the loop of main(). *)

HasLawId(law_info) == extract_law_info(law_info).law_id # None

\* The law_id of every entry of list that has one, in order.
LawIds(list) ==
    LET with == SelectSeq(list, HasLawId)
    IN  [i \in 1 .. Len(with) |-> extract_law_info(with[i]).law_id]

\* C6: a failed resolution does not end the run. The primary requests issued
\* are those of the entries pulled so far, one each and in the list's order; a
\* run leaves the loop by an exception only for a failed listing or a failed
\* write; and a run that returns has pulled every entry up to the limit and
\* exits with 0.
C6_FailureIsolation ==
    /\ attempts = LawIds(SubSeq(law_info_list, 1, count))
    /\ outcome = "failed" => pc = "iter" \/ ended \in {"finished", "interrupted"}
    /\ ended = "crashed" => tally.write_failed > 0 \/ (count = 0 /\ tally.failed = 0)
    /\ ended = "finished" =>
           /\ exit_status = 0
           /\ ~IterHasNext(Len(law_info_list), count, args.limit)

\* C6 witness: a run returned 0 after an item failed and a later one was saved.
C6_Witness ==
    /\ ended = "finished"
    /\ exit_status = 0
    /\ tally.failed >= 1
    /\ outcome = "saved"
    /\ Len(attempts) >= 2

Max(a, b) == IF a >= b THEN a ELSE b

Min(a, b) == IF a <= b THEN a ELSE b

Dropped == tally.skipped + tally.failed + tally.rejected + tally.write_failed

\* C7 as stated, for a limit of at least 1: the keyword script returns only
\* when the laws saved have reached the limit or the list is exhausted.
C7_StopsAtAcceptedCap ==
    script = "keyword" /\ ended = "finished" /\ args.limit >= 1 =>
        /\ active_count <= args.limit
        /\ active_count = args.limit \/ count = Len(law_info_list)

\* C7 as amended: the limit caps the entries pulled, whatever becomes of them,
\* and the first entry is pulled under any limit. A run that returns has pulled
\* min(max(limit, 1), length) entries and has saved those of them that were not
\* skipped, failed, rejected or lost to a failed write.
C7_StopsAtScannedCap ==
    /\ args.limit # NoLimit => count <= Max(args.limit, 1)
    /\ Len(written) <= count
    /\ script = "keyword" => active_count <= count
    /\ ended = "finished" =>
           /\ args.limit # NoLimit =>
                  count = Min(Max(args.limit, 1), Len(law_info_list))
           /\ Len(written) = count - Dropped
           /\ script = "keyword" => active_count = count - Dropped

\* C7 witness: the keyword script returned with the limit reached, every entry
\* pulled saved, and entries left in the list.
C7_Witness ==
    /\ script = "keyword"
    /\ ended = "finished"
    /\ args.limit >= 1
    /\ count = args.limit
    /\ count < Len(law_info_list)
    /\ active_count = args.limit
    /\ Dropped = 0

\* C8 as stated: when the primary request of an item is issued, a sleep has
\* taken place since the last detail request of an earlier item.
C8_DelayBetweenItems == gapAtFetch # "fetched"

\* C9 as stated: after a failed write the run is over, with a non-zero status.
C9_WriteFailureIsFatal ==
    tally.write_failed > 0 => pc = "done" /\ ended = "crashed" /\ exit_status # 0

\* C10 as stated: writes for different (law_id, law_num) pairs go to different
\* files, so there are as many files as pairs saved.
C10_PathPerIdentifierPair ==
    /\ \A i, j \in 1 .. Len(written) :
           <<written[i].law_id, written[i].law_num>> # <<written[j].law_id, written[j].law_num>>
               => written[i].filename # written[j].filename
    /\ Cardinality(DOMAIN files) =
           Cardinality({ <<written[i].law_id, written[i].law_num>> : i \in 1 .. Len(written) })

-----------------------------------------------------------------------------
(* C11, C12: how a run ends. *)

\* The listing request raised: the run is over and there is no answer.
ListingFailed == ended \in {"list_failed", "crashed"} /\ list_payload = EmptyDict

\* C11: a run that returns from main() after the loop, or for an empty list,
\* exits with 0, whatever number of items failed; a run whose listing request
\* fails exits with a non-zero status, having issued no detail request and
\* written no file.
C11_ExitStatus ==
    /\ ended = "finished" => exit_status = 0
    /\ ListingFailed =>
           /\ exit_status \notin {0, NoExit}
           /\ count = 0
           /\ attempts = << >>
           /\ reqs = << >>
           /\ written = << >>
           /\ files = EmptyDict

\* C11 witness: the listing request has failed and the run is over with 1.
C11_Witness ==
    /\ ListingFailed
    /\ Len(list_reqs) = 1
    /\ pc = "done"
    /\ exit_status = 1

\* The writes of the file the item in hand goes to were all for the item's
\* own law_id and law_num.
OwnFile(i) ==
    written[i].filename = Filename(cur.law_id, cur.law_num, cur.law_name) =>
        written[i].law_id = cur.law_id /\ written[i].law_num = cur.law_num

\* C12 as stated: an interrupted run is over with a non-zero status, and every
\* file a write_text completed still has a payload as its content.
C12_InterruptKeepsFiles ==
    ended = "interrupted" =>
        /\ pc = "done"
        /\ exit_status \notin {0, NoExit}
        /\ \A i \in 1 .. Len(written) :
               OwnFile(i) => files[written[i].filename] # Truncated

-----------------------------------------------------------------------------
(* sanitize_filename on its own: the function applied to a string, and then *)
(* to its own result.                                                       *)

\* Characters of the strings tried: allowed ones, whitespace, disallowed ones.
SanChars == {"a", "-", "_", " ", "\t", "/"}

SanInputs == SeqsUpTo(SanChars, MaxStrLen)

SanInit ==
    /\ san \in { [NoSan EXCEPT !.value = s] : s \in SanInputs }
    /\ script = "keyword"
    /\ args = [category_cd |-> <<"1", "3">>, limit |-> NoLimit]
    /\ pc = "list"
    /\ list_reqs = << >>
    /\ list_payload = EmptyDict
    /\ law_info_list = << >>
    /\ count = 0
    /\ cur = NoItem
    /\ law_payload = EmptyDict
    /\ files = EmptyDict
    /\ active_count = 0
    /\ exit_status = NoExit
    /\ ended = "running"
    /\ reqs = << >>
    /\ resps = << >>
    /\ attempts = << >>
    /\ written = << >>
    /\ gap = "none"
    /\ gapAtFetch = "none"
    /\ outcome = "none"
    /\ tally = [skipped |-> 0, failed |-> 0, rejected |-> 0, write_failed |-> 0]

\* once = sanitize_filename(value)
SanitizeOnce ==
    /\ san.calls = 0
    /\ san' = [san EXCEPT !.once = sanitize_filename(san.value), !.calls = 1]
    /\ UNCHANGED <<list_reqs, list_payload, script, args, pc, law_info_list,
                   count, cur, law_payload, files, active_count, exit_status,
                   ended>>
    /\ UNCHANGED ghosts

\* twice = sanitize_filename(once)
SanitizeTwice ==
    /\ san.calls = 1
    /\ san' = [san EXCEPT !.twice = sanitize_filename(san.once), !.calls = 2]
    /\ UNCHANGED <<list_reqs, list_payload, script, args, pc, law_info_list,
                   count, cur, law_payload, files, active_count, exit_status,
                   ended>>
    /\ UNCHANGED ghosts

SanNext == SanitizeOnce \/ SanitizeTwice

SanSpec == SanInit /\ [][SanNext]_vars

\* The string has no character that survives sanitation: it is empty or made
\* of whitespace, underscores and disallowed characters only.
NothingSurvives(s) ==
    \A i \in 1 .. Len(s) : s[i] \in Whitespace \cup {"_"} \cup (Alphabet \ AllowedChars)

\* C13: sanitize_filename applied to its own result gives that result again,
\* for every string; a string that is empty or made only of whitespace,
\* underscores and disallowed characters gives "unknown", both times.
C13_SanitizeIdempotent ==
    /\ san.calls >= 1 /\ NothingSurvives(san.value) => san.once = Unknown
    /\ san.calls = 2 => san.twice = san.once

\* C13 witness: a string with an inner run of disallowed characters and
\* underscores at its ends has been sanitized twice.
C13_Witness ==
    /\ san.calls = 2
    /\ san.value = <<"_", "a", "/", "a">>
    /\ san.once = <<"a", "_", "a">>
    /\ san.twice = <<"a", "_", "a">>

-----------------------------------------------------------------------------
(* C14: the listing. *)

\* The list main() reads out of the listing answer.
ListRead ==
    IF script = "keyword" THEN KeywordList(list_payload) ELSE LawsList(list_payload)

\* C14 as stated: every listing request names an offset and a page size, the
\* first offset is 1 and each next one is a page further.
C14_ListingIsPaginated ==
    \A i \in 1 .. Len(list_reqs) :
        /\ {"offset", "limit"} \subseteq DOMAIN list_reqs[i].params
        /\ list_reqs[i].params.offset = 1 + (i - 1) * list_reqs[i].params.limit

\* C14 amended: a run makes one listing request, which names the category and
\* the response format and neither an offset nor a page size; the entries the
\* driver gets are the entries of that one answer, in the answer's order, and
\* a run that returns after the loop has taken every one of them or has
\* reached the cap.
C14_SingleListRequest ==
    /\ Len(list_reqs) <= 1
    /\ \A i \in 1 .. Len(list_reqs) :
           /\ DOMAIN list_reqs[i].params = {"category_cd", "response_format"}
           /\ list_reqs[i].params.category_cd = args.category_cd
    /\ count >= 1 \/ ended \in {"finished", "list_failed"} => Len(list_reqs) = 1
    /\ law_info_list = ListRead
    /\ count <= Len(law_info_list)
    /\ count >= 1 => cur = extract_law_info(law_info_list[count])
    /\ ended = "finished" =>
           \/ count = Len(law_info_list)
           \/ args.limit # NoLimit /\ count >= args.limit

\* C14 witness: a run over a list of two entries has taken both and returned,
\* after one listing request.
C14_Witness ==
    /\ ended = "finished"
    /\ Len(list_reqs) = 1
    /\ Len(law_info_list) = 2
    /\ count = 2

-----------------------------------------------------------------------------
(* C15: what the keyword script's filter lets through. *)

\* The writes completed for the item in hand.
WritesOfItem == { i \in 1 .. Len(written) : written[i].item = count }

\* C15: in the keyword script a resolved record that declares no status of the
\* rejection set (none at all, or another value such as None or Suspend) and no
\* amendment type 8 passes the filter and reaches write_text; the filter skips
\* no other record; and a write_text that succeeds for it is the item's only
\* write, puts the record in the item's file and counts it once.
C15_AdmitByDefault ==
    script = "keyword" =>
        /\ outcome = "rejected" =>
               DeclaresStatus(law_payload, InactiveStatuses) \/ DeclaresAmendment8(law_payload)
        /\ ( /\ outcome \in {"rejected", "admitted", "saved", "write_failed"}
             /\ ~DeclaresStatus(law_payload, InactiveStatuses)
             /\ ~DeclaresAmendment8(law_payload) ) => ReachedWrite
        /\ outcome = "admitted" => pc \in {"write", "writing", "done"} /\ WritesOfItem = {}
        /\ outcome = "saved" =>
               /\ Cardinality(WritesOfItem) = 1
               /\ files[Filename(cur.law_id, cur.law_num, cur.law_name)] = law_payload
               /\ active_count = Len(written)
               /\ active_count = count - (tally.skipped + tally.failed + tally.rejected
                                            + tally.write_failed)

\* C15 witness: a record that declares the status Suspend was saved and
\* counted.
C15_Witness ==
    /\ script = "keyword"
    /\ outcome = "saved"
    /\ DeclaresStatus(law_payload, {"Suspend"})
    /\ files[Filename(cur.law_id, cur.law_num, cur.law_name)] = law_payload
    /\ active_count = 1

-----------------------------------------------------------------------------
(* C16: answers delivered under a wrapper key. *)

\* The record of a detail answer: the answer itself, or what it holds under
\* law_data_response.
Unwrapped(p) == IF "law_data_response" \in DOMAIN p THEN p.law_data_response ELSE p

\* The record, taken as delivered at the top of an answer, declares a status
\* of the rejection set or amendment type 8.
InactiveAtTop(p) ==
    /\ "revision_info" \in DOMAIN p
    /\ \/ /\ "repeal_status" \in DOMAIN p.revision_info
          /\ p.revision_info.repeal_status \in InactiveStatuses
       \/ /\ "amendment_type" \in DOMAIN p.revision_info
          /\ p.revision_info.amendment_type \in {JStr("8"), JInt(8)}

\* C16: in the keyword script the filter decides on a record delivered under
\* law_data_response as it decides on the same record delivered at the top of
\* the answer, and the entries processed from a listing answer that holds
\* law_info_list under keyword_response are the entries of that list, as they
\* are for a list delivered at the top.
C16_WrapperNormalization ==
    script = "keyword" =>
        /\ outcome \in {"rejected", "admitted", "saved", "write_failed"} =>
               ((outcome = "rejected") <=> InactiveAtTop(Unwrapped(law_payload)))
        /\ "keyword_response" \in DOMAIN list_payload =>
               law_info_list = list_payload.keyword_response.law_info_list
        /\ "law_info_list" \in DOMAIN list_payload =>
               law_info_list = list_payload.law_info_list
        /\ count >= 1 => cur = extract_law_info(law_info_list[count])

\* C16 witness: the listing answer came under keyword_response, an entry of
\* its list was fetched, and its record, a repealed law delivered under
\* law_data_response, was skipped.
C16_Witness ==
    /\ script = "keyword"
    /\ "keyword_response" \in DOMAIN list_payload
    /\ Len(law_info_list) >= 1
    /\ "law_data_response" \in DOMAIN law_payload
    /\ law_payload.law_data_response.revision_info.repeal_status = "Repeal"
    /\ outcome = "rejected"

-----------------------------------------------------------------------------
(* C17: what the entries that are not written leave alone. *)

\* A step of the processing of an entry that has not passed the filter: the
\* entry is taken, fetched, found to have no law_id, failed or skipped, or the
\* run moves on from it.
UnwrittenStep ==
    \/ outcome' \in {"pending", "skipped", "failed", "rejected"}
    \/ script = "keyword" /\ outcome' = "resolved"

\* C17: the steps of an entry that the filter skips, that fails to resolve or
\* that has no law_id change neither a file nor active_count, and no write is
\* recorded for it; taking an entry with no law_id issues no request; so in
\* the keyword script active_count is, in every state, the number of
\* write_text calls that have succeeded.
C17_UnwrittenEntriesLeaveNoTrace ==
    /\ [](script = "keyword" => active_count = Len(written))
    /\ [](outcome \in {"skipped", "failed", "rejected"} =>
              /\ WritesOfItem = {}
              /\ outcome = "skipped" => reqs = << >> /\ cur.law_id = None)
    /\ [][ /\ UnwrittenStep =>
                /\ files' = files
                /\ active_count' = active_count
                /\ written' = written
           /\ outcome' = "skipped" => attempts' = attempts
         ]_vars

\* C17 witness: after one law was written, the next entry's record was
\* skipped by the filter, with the one file and a count of one left as they
\* were.
C17_Witness ==
    /\ script = "keyword"
    /\ outcome = "rejected"
    /\ count = 2
    /\ Len(written) = 1
    /\ written[1].item = 1
    /\ active_count = 1
    /\ DOMAIN files = {written[1].filename}

====
